---- MODULE Spec2Model ----
(***************************************************************************)
(* The connection multiplexer of skepticoin: LocalPeer's event loop        *)
(* (skepticoin/networking/local_peer.py).  One loop thread runs run();     *)
(* stop() may be called from outside at any moment.  The selector, the     *)
(* sockets, the clock and the managers' steps are the environment.         *)
(* Further sections model DiskInterface.overwrite_peers on peers.json, the  *)
(* Network Manager's retry backoff, the Chain Manager's sync mode and the   *)
(* Consensus Validator's functions as the tests of tests/test_consensus.py  *)
(* exercise them.                                                           *)
(***************************************************************************)
EXTENDS Integers, Sequences, FiniteSets, TLC

\* ------------------------------------------------------------- bounds
\* Connections the model follows one by one (each slot is used for one
\* connection, accepted or outbound, and never reused).
MaxConns == 2
\* int(time()) returns a value in 0..MaxTime.
MaxTime == 1

\* ------------------------------------------------------------- constants
\* key.data of the listening socket; the connections are 1..MaxConns
LISTENING_SOCKET == 0

Conns == 1..MaxConns
Platforms == {"linux", "win32", "other"}
EVENT_READ == "EVENT_READ"
EVENT_WRITE == "EVENT_WRITE"
Masks == {{EVENT_READ}, {EVENT_WRITE}, {EVENT_READ, EVENT_WRITE}}
Outcomes == {"ok", "OSError", "Exception"}
RecvResults == {"data", "empty", "OSError"}

MAX_SELECTOR_SIZE_BY_PLATFORM == [win32 |-> 64, linux |-> 512]

\* skepticoin.networking.params: "this time doubles with each retry"
TIME_TO_SECOND_CONNECTION_ATTEMPT_doubled == 2 * 10
TIME_TO_SECOND_CONNECTION_ATTEMPT == 10

\* skepticoin.networking.params: "10 * 2^19 = 5242880 ~~ 60 days"
MAX_CONNECTION_ATTEMPTS == 19

\* skepticoin.networking.params: "if your chain is 5 minutes old, start
\* querying for blocks actively"
SWITCH_TO_ACTIVE_MODE_TIMEOUT_late == 5 * 60 + 1
SWITCH_TO_ACTIVE_MODE_TIMEOUT == 5 * 60

\* Halving intervals whose boundaries are looked at.
MaxHalvings == 31

\* Inputs and outputs of one transaction.
MaxInputs == 2
MaxOutputs == 2

\* skepticoin.params.MAX_COINBASE_RANDOM_DATA_SIZE, scaled down: the lengths
\* of coinbase data are 0..MAX_COINBASE_RANDOM_DATA_SIZE + 1.
MAX_COINBASE_RANDOM_DATA_SIZE == 2

\* Heights of the blocks looked at.
MaxHeight == 2

\* Peers handed to one overwrite_peers call.
MaxPeers == 2

\* skepticoin.networking.params.PORT
PORT == 2412

OUTGOING == "OUTGOING"
INCOMING == "INCOMING"
IRRELEVANT == "IRRELEVANT"
Directions == {OUTGOING, INCOMING, IRRELEVANT}
Hosts == {"10.0.0.1", "10.0.0.2"}

\* the fields of a ConnectedRemotePeer that overwrite_peers reads
RemotePeers == [host : Hosts, port : {PORT}, direction : Directions, hello_received : BOOLEAN]

PeerLists == UNION {[1..n -> RemotePeers] : n \in 0..MaxPeers}

\* the list built the other way round
managers_reversed == <<"chain_manager", "network_manager">>

\* self.managers, in the order __init__ builds the list
managers == <<"network_manager", "chain_manager">>

VARIABLES
  platform,        \* sys.platform
  running,         \* self.running
  stop_requested,  \* stop() has been called at least once
  pc,              \* where run() is
  exc,             \* the exception that reached run()'s except clause
  closes,          \* number of selector.close() calls
  listening,       \* the listening socket is in the selector's map
  idle,            \* further registered connections that stay idle
  conn,            \* the followed connections
  current_time,    \* run()'s local current_time
  mgr,             \* index of step_managers' for loop
  stepped,         \* manager.step calls of this iteration: <<manager, time>>
  ready,           \* keys of the events select returned, not yet iterated over
  cur,             \* the (key, mask) being dispatched
  polled,          \* what this iteration's select saw
  started,         \* connections start_outgoing_connection registered in this iteration
  socall,          \* what the latest start_outgoing_connection call did
  hobs,            \* what the latest handle_remote_peer_selector_event call did
  peers_json,      \* the file peers.json
  ow,              \* the DiskInterface.overwrite_peers call under way
  candidate,       \* a DisconnectedRemotePeer of the Network Manager's address book
  chain,           \* the Chain Manager's sync mode and head
  val              \* a call of one of the consensus validator's functions

\* the event loop's own state
loop == <<platform, running, stop_requested, pc, exc, closes, listening, idle,
          conn, current_time, mgr, stepped, ready, cur, polled, started, socall, hobs>>

\* the state of the components the loop calls into
others == <<peers_json, ow, candidate, chain, val>>

vars == <<loop, others>>

loopvars == <<current_time, mgr, stepped, ready, cur, polled, started>>

\* ------------------------------------------------------------- helpers
FreeConn == [st |-> "free", reg |-> FALSE, dir |-> "none", nmC |-> 0, nmD |-> 0]

NoKey == <<LISTENING_SOCKET, {}>>
NoPoll == [done |-> FALSE, keys |-> {}, nsteps |-> 0]
NoCall == [called |-> FALSE, size |-> 0, cap |-> 0, created |-> 0, registered |-> {},
           events |-> {}, notified |-> 0, dropped |-> {}, raised |-> FALSE]
NoEvent == [peer |-> 0, mask |-> {}, was_reg |-> FALSE, caught |-> "none",
            dcalls |-> <<>>, others_changed |-> FALSE, can_send_closed |-> FALSE]

Registered(c) == {p \in Conns : c[p].reg}

Free(c) == {p \in Conns : c[p].st = "free"}

\* the lowest free slot stands for the next new socket
NextFree(c) == CHOOSE p \in Free(c) : \A q \in Free(c) : p <= q

\* len(self.selector.get_map())
SelectorSize(c) == (IF listening THEN 1 ELSE 0) + idle + Cardinality(Registered(c))

\* MAX_SELECTOR_SIZE_BY_PLATFORM.get(sys.platform, 64)
max_selector_map_size ==
  IF platform \in DOMAIN MAX_SELECTOR_SIZE_BY_PLATFORM
  THEN MAX_SELECTOR_SIZE_BY_PLATFORM[platform]
  ELSE 64

RegisteredKeys == (IF listening THEN {LISTENING_SOCKET} ELSE {}) \cup Registered(conn)


\* ------------------------------------------------------------- operations
\* disconnect without its try/except: what unregister raises leaves it
disconnect_unguarded(c, p) ==
  IF c[p].reg
  THEN [conn |-> [c EXCEPT ![p].reg = FALSE, ![p].st = "closed", ![p].nmD = @ + 1],
        call |-> [was_reg |-> TRUE,
                  ops |-> <<"unregister", "close", "handle_peer_disconnected">>],
        raised |-> FALSE]
  ELSE [conn |-> c,
        call |-> [was_reg |-> FALSE, ops |-> <<"unregister raised">>],
        raised |-> TRUE]

\* LocalPeer.disconnect(remote_peer): unregister, close, notify; anything
\* raised inside is logged and swallowed.  unregister raises for a socket
\* that is not in the selector's map (or already closed) and the rest of
\* the try block is then skipped.
disconnect(c, p) ==
  IF c[p].reg
  THEN [conn |-> [c EXCEPT ![p].reg = FALSE, ![p].st = "closed", ![p].nmD = @ + 1],
        call |-> [was_reg |-> TRUE,
                  ops |-> <<"unregister", "close", "handle_peer_disconnected">>],
        raised |-> FALSE]
  ELSE [conn |-> c,
        call |-> [was_reg |-> FALSE, ops |-> <<"unregister raised">>],
        raised |-> FALSE]

\* The try block of handle_remote_peer_selector_event up to the write part:
\* recv, then handle_receive_data or disconnect("connection closed remotely").
read_part(c, p, mask, recv, rd) ==
  IF EVENT_READ \notin mask
  THEN [conn |-> c, raised |-> "none", dcalls |-> <<>>]
  ELSE IF recv = "OSError"
  THEN [conn |-> c, raised |-> "OSError", dcalls |-> <<>>]
  ELSE IF recv = "data"
  THEN [conn |-> c, raised |-> (IF rd = "ok" THEN "none" ELSE rd), dcalls |-> <<>>]
  ELSE LET d == disconnect(c, p)
       IN  [conn |-> d.conn,
            raised |-> (IF d.raised THEN "Exception" ELSE "none"),
            dcalls |-> <<d.call>>]

\* The rest of the try block: handle_can_send when the mask has EVENT_WRITE
\* (whatever the read part did to the peer, short of raising).
\* can_send_closed tells that handle_can_send was called with the peer's
\* socket closed.
write_part(r, p, mask, cs) ==
  IF r.raised # "none" \/ EVENT_WRITE \notin mask
  THEN [conn |-> r.conn, raised |-> r.raised, dcalls |-> r.dcalls, can_send_closed |-> FALSE]
  ELSE [conn |-> r.conn, raised |-> (IF cs = "ok" THEN "none" ELSE cs),
        dcalls |-> r.dcalls, can_send_closed |-> r.conn[p].st = "closed"]

\* the handler with only its "except OSError" clause
handle_remote_peer_selector_event_oserror_only(c, p, mask, recv, rd, cs) ==
  LET t == write_part(read_part(c, p, mask, recv, rd), p, mask, cs)
  IN  IF t.raised = "none"
      THEN [conn |-> t.conn, caught |-> "none", dcalls |-> t.dcalls, escaped |-> FALSE,
            can_send_closed |-> t.can_send_closed]
      ELSE IF t.raised = "OSError"
      THEN LET d == disconnect(t.conn, p)
           IN  [conn |-> d.conn, caught |-> t.raised,
                dcalls |-> Append(t.dcalls, d.call), escaped |-> d.raised,
                can_send_closed |-> t.can_send_closed]
      ELSE [conn |-> t.conn, caught |-> t.raised, dcalls |-> t.dcalls, escaped |-> TRUE,
            can_send_closed |-> t.can_send_closed]

\* handle_remote_peer_selector_event(key, mask) for the peer p of key:
\* the try block, then the two except clauses, both of which disconnect.
handle_remote_peer_selector_event(c, p, mask, recv, rd, cs) ==
  LET t == write_part(read_part(c, p, mask, recv, rd), p, mask, cs)
  IN  IF t.raised = "none"
      THEN [conn |-> t.conn, caught |-> "none", dcalls |-> t.dcalls, escaped |-> FALSE,
            can_send_closed |-> t.can_send_closed]
      ELSE LET d == disconnect(t.conn, p)
           IN  [conn |-> d.conn, caught |-> t.raised,
                dcalls |-> Append(t.dcalls, d.call), escaped |-> d.raised,
                can_send_closed |-> t.can_send_closed]

\* start_outgoing_connection(disconnected_peer).  fail is what the socket
\* calls do: "none", "socket" (socket.socket raises) or "connect"
\* (connect_ex raises, e.g. host not found).
\* the cap test with > for >=
start_outgoing_connection_gt(c, fail) ==
  IF SelectorSize(c) > max_selector_map_size
  THEN [conn |-> c, sockets |-> 0, events |-> {}, raised |-> FALSE]
  ELSE IF fail = "socket"
  THEN [conn |-> c, sockets |-> 0, events |-> {}, raised |-> TRUE]
  ELSE IF fail = "connect"
  THEN [conn |-> c, sockets |-> 1, events |-> {}, raised |-> TRUE]
  ELSE LET p == NextFree(c)
       IN  [conn |-> [c EXCEPT ![p] = [st |-> "open", reg |-> TRUE, dir |-> "OUTGOING",
                                       nmC |-> 1, nmD |-> 0]],
            sockets |-> 1, events |-> {EVENT_READ}, raised |-> FALSE]

\* A socket whose connect_ex raised is referenced by nothing once the
\* exception has left the function: it is not followed.
start_outgoing_connection(c, fail) ==
  IF SelectorSize(c) >= max_selector_map_size
  THEN [conn |-> c, sockets |-> 0, events |-> {}, raised |-> FALSE]
  ELSE IF fail = "socket"
  THEN [conn |-> c, sockets |-> 0, events |-> {}, raised |-> TRUE]
  ELSE IF fail = "connect"
  THEN [conn |-> c, sockets |-> 1, events |-> {}, raised |-> TRUE]
  ELSE LET p == NextFree(c)
       IN  [conn |-> [c EXCEPT ![p] = [st |-> "open", reg |-> TRUE, dir |-> "OUTGOING",
                                       nmC |-> 1, nmD |-> 0]],
            sockets |-> 1, events |-> {EVENT_READ}, raised |-> FALSE]

\* handle_incoming_connection without the handle_peer_connected call
handle_incoming_connection_unannounced(c) ==
  LET p == NextFree(c)
  IN  [c EXCEPT ![p] = [st |-> "open", reg |-> TRUE, dir |-> "INCOMING",
                        nmC |-> 0, nmD |-> 0]]

\* handle_incoming_connection(sock): accept, register for EVENT_READ, notify.
handle_incoming_connection(c) ==
  LET p == NextFree(c)
  IN  [c EXCEPT ![p] = [st |-> "open", reg |-> TRUE, dir |-> "INCOMING",
                        nmC |-> 1, nmD |-> 0]]

\* what a call changed, read off the connections before and after it
Observe(c, c2, size, r) ==
  [called |-> TRUE, size |-> size, cap |-> max_selector_map_size,
   created |-> r.sockets,
   registered |-> Registered(c2) \ Registered(c),
   events |-> r.events,
   raised |-> r.raised,
   notified |-> Cardinality({p \in Conns : c2[p].nmC > c[p].nmC}),
   dropped |-> {p \in Conns : (c[p].reg /\ ~c2[p].reg) \/ (c[p].st = "open" /\ c2[p].st # "open")}]


\* ------------------------------------------------------------- initial states
\* LocalPeer.__init__: a fresh selector, the two managers, run() not called.
InitConstructed ==
  /\ pc = "idle"
  /\ running = FALSE
  /\ listening = FALSE
  /\ idle = 0

\* The top of run()'s while loop on a node that listens and has accepted
\* connections up to 0..MaxConns below the platform cap, all of them idle.
InitPopulated ==
  /\ pc = "while"
  /\ running = TRUE
  /\ listening = TRUE
  /\ \E k \in 0..MaxConns : idle = max_selector_map_size - 1 - k

\* peers.json before anything was written to it, and no overwrite_peers call
Absent == [exists |-> FALSE, entries |-> <<>>, complete |-> FALSE]

NoOverwrite == [pc |-> "idle", peers |-> <<>>, db |-> <<>>, old |-> Absent, raised |-> "none"]

InitDiskIdle ==
  /\ peers_json = Absent
  /\ ow = NoOverwrite

InitLoop ==
  /\ platform \in Platforms
  /\ stop_requested = FALSE
  /\ exc = "none"
  /\ closes = 0
  /\ conn = [p \in Conns |-> FreeConn]
  /\ current_time = 0
  /\ mgr = 1
  /\ stepped = <<>>
  /\ ready = {}
  /\ cur = NoKey
  /\ polled = NoPoll
  /\ started = {}
  /\ socall = NoCall
  /\ hobs = NoEvent

\* a DisconnectedRemotePeer just put into the address book: no attempt made,
\* due at once
NewCandidate ==
  [state |-> "disconnected", attempts |-> 0, now |-> 0, retry_at |-> 0,
   failed_at |-> 0, handings |-> 0, handed_at |-> 0, due_then |-> 0]

\* ChainManager(self, int(time())) on a chain that holds the genesis block:
\* times are counted from the genesis block's timestamp
NewChain == [mode |-> "IBD", head |-> 0, now |-> 0, at_step |-> FALSE, switches |-> 0]

\* no function of the consensus validator has been called
NoValidation == [fn |-> "none", arg |-> <<>>, done |-> FALSE, result |-> "none"]

InitManagers ==
  /\ candidate = NewCandidate
  /\ chain = NewChain
  /\ val = NoValidation

InitOthers ==
  /\ InitDiskIdle
  /\ InitManagers

Init == InitLoop /\ InitConstructed /\ InitOthers

InitCap == InitLoop /\ (InitConstructed \/ InitPopulated) /\ InitOthers

\* ------------------------------------------------------------- actions
\* start_listening(port): the listening socket enters the selector's map.
start_listening ==
  /\ pc = "idle"
  /\ ~listening
  /\ listening' = TRUE
  /\ UNCHANGED <<platform, running, stop_requested, pc, exc, closes, idle, conn,
                 socall, hobs>>
  /\ UNCHANGED loopvars
  /\ UNCHANGED others

\* stop(): clears the flag, whatever run() is doing.
stop ==
  /\ running \/ ~stop_requested
  /\ running' = FALSE
  /\ stop_requested' = TRUE
  /\ UNCHANGED <<platform, pc, exc, closes, listening, idle, conn, socall, hobs>>
  /\ UNCHANGED loopvars
  /\ UNCHANGED others

\* run(): self.running = True, enter the try block.
run_start ==
  /\ pc = "idle"
  /\ running' = TRUE
  /\ pc' = "while"
  /\ UNCHANGED <<platform, stop_requested, exc, closes, listening, idle, conn,
                 socall, hobs>>
  /\ UNCHANGED loopvars
  /\ UNCHANGED others

\* while self.running: current_time = int(time()); step_managers(current_time)
run_while ==
  /\ pc = "while"
  /\ IF running
     THEN /\ pc' = "mgr_for"
          /\ \E t \in 0..MaxTime : current_time' = t
          /\ mgr' = 1
          /\ stepped' = <<>>
          /\ polled' = NoPoll
          /\ started' = {}
     ELSE /\ pc' = "finally"
          /\ UNCHANGED <<current_time, mgr, stepped, polled, started>>
  /\ UNCHANGED <<platform, running, stop_requested, exc, closes, listening, idle,
                 conn, ready, cur, socall, hobs>>
  /\ UNCHANGED others

\* step_managers without the test of self.running
step_managers_unchecked ==
  /\ pc = "mgr_for"
  /\ IF mgr > Len(managers)
     THEN /\ pc' = "select"
          /\ UNCHANGED stepped
     ELSE /\ pc' = "in_step"
          /\ stepped' = Append(stepped, <<managers[mgr], current_time>>)
  /\ UNCHANGED <<platform, running, stop_requested, exc, closes, listening, idle,
                 conn, current_time, mgr, ready, cur, polled, started, socall, hobs>>
  /\ UNCHANGED others

\* step_managers: for manager in self.managers: if not self.running: break;
\* manager.step(current_time) is entered.  After the loop comes
\* handle_selector_events.
step_managers ==
  /\ pc = "mgr_for"
  /\ IF mgr > Len(managers) \/ ~running
     THEN /\ pc' = "select"
          /\ UNCHANGED stepped
     ELSE /\ pc' = "in_step"
          /\ stepped' = Append(stepped, <<managers[mgr], current_time>>)
  /\ UNCHANGED <<platform, running, stop_requested, exc, closes, listening, idle,
                 conn, current_time, mgr, ready, cur, polled, started, socall, hobs>>
  /\ UNCHANGED others

\* The Network Manager's step asks for an outbound connection.
nm_start_outgoing_connection ==
  /\ pc = "in_step"
  /\ managers[mgr] = "network_manager"
  /\ Free(conn) # {}
  /\ \E fail \in {"none", "socket", "connect"} :
       LET r == start_outgoing_connection(conn, fail)
       IN  /\ conn' = r.conn
           /\ socall' = Observe(conn, r.conn, SelectorSize(conn), r)
           /\ started' = started \cup (Registered(r.conn) \ Registered(conn))
  /\ UNCHANGED <<platform, running, stop_requested, pc, exc, closes, listening, idle,
                 current_time, mgr, stepped, ready, cur, polled, hobs>>
  /\ UNCHANGED others

\* manager.step(current_time) returns.
step_return ==
  /\ pc = "in_step"
  /\ mgr' = mgr + 1
  /\ pc' = "mgr_for"
  /\ socall' = NoCall
  /\ UNCHANGED <<platform, running, stop_requested, exc, closes, listening, idle,
                 conn, current_time, stepped, ready, cur, polled, started, hobs>>
  /\ UNCHANGED others

\* a run() that catches inside the while loop and goes round again
step_raise_retry ==
  /\ pc = "in_step"
  /\ exc' = "manager.step"
  /\ pc' = "while"
  /\ socall' = NoCall
  /\ UNCHANGED <<platform, running, stop_requested, closes, listening, idle,
                 conn, hobs>>
  /\ UNCHANGED loopvars
  /\ UNCHANGED others

\* manager.step(current_time) raises: nothing between it and run() catches.
step_raise ==
  /\ pc = "in_step"
  /\ exc' = "manager.step"
  /\ pc' = "finally"
  /\ socall' = NoCall
  /\ UNCHANGED <<platform, running, stop_requested, closes, listening, idle,
                 conn, hobs>>
  /\ UNCHANGED loopvars
  /\ UNCHANGED others


\* a poll of the map as it was before this iteration's manager steps
selector_select_map_stale == RegisteredKeys \ started

\* The map selector.select polls: what is registered when it is called.
selector_select_map == RegisteredKeys

\* select without a timeout: it returns only when a descriptor is ready
select_return_blocking ==
  /\ pc = "select"
  /\ \E keys \in SUBSET selector_select_map :
       /\ keys # {}
       /\ LISTENING_SOCKET \in keys => Free(conn) # {}
       /\ ready' = keys
  /\ polled' = [done |-> TRUE, keys |-> selector_select_map, nsteps |-> Len(stepped)]
  /\ pc' = "ev_for"
  /\ UNCHANGED <<platform, running, stop_requested, exc, closes, listening, idle, conn,
                 current_time, mgr, stepped, cur, started, socall, hobs>>
  /\ UNCHANGED others

\* events = self.selector.select(timeout=1): any of the registered
\* descriptors may be ready, none after the timeout.  The listening socket
\* is ready when a connection is pending.  (ready keeps the keys; the mask
\* of each event is drawn when the for loop reaches it.)
select_return ==
  /\ pc = "select"
  /\ \E keys \in SUBSET selector_select_map :
       /\ LISTENING_SOCKET \in keys => Free(conn) # {}
       /\ ready' = keys
  /\ polled' = [done |-> TRUE, keys |-> selector_select_map, nsteps |-> Len(stepped)]
  /\ pc' = "ev_for"
  /\ UNCHANGED <<platform, running, stop_requested, exc, closes, listening, idle, conn,
                 current_time, mgr, stepped, cur, started, socall, hobs>>
  /\ UNCHANGED others

\* selector.select raises (e.g. OSError): nothing in handle_selector_events
\* catches it.
select_raise ==
  /\ pc = "select"
  /\ exc' = "select"
  /\ pc' = "finally"
  /\ UNCHANGED <<platform, running, stop_requested, closes, listening, idle, conn,
                 socall, hobs>>
  /\ UNCHANGED loopvars
  /\ UNCHANGED others

\* handle_selector_events: for key, mask in events: if not self.running:
\* break; dispatch on key.data.  After the loop, back to the while test.
handle_selector_events ==
  /\ pc = "ev_for"
  /\ hobs' = NoEvent
  /\ IF ready = {} \/ ~running
     THEN /\ pc' = "while"
          /\ ready' = {}
          /\ UNCHANGED cur
     ELSE \E k \in ready, mask \in Masks :
            /\ k = LISTENING_SOCKET => mask = {EVENT_READ}
            /\ cur' = <<k, mask>>
            /\ ready' = ready \ {k}
            /\ pc' = IF k = LISTENING_SOCKET THEN "in_accept" ELSE "in_peer_event"
  /\ UNCHANGED <<platform, running, stop_requested, exc, closes, listening, idle,
                 conn, current_time, mgr, stepped, polled, started, socall>>
  /\ UNCHANGED others

\* self.handle_incoming_connection(key.fileobj): accept either returns a
\* connection, which is registered, or raises OSError, which nothing
\* between here and run() catches.
incoming_connection ==
  /\ pc = "in_accept"
  /\ \E accepted \in BOOLEAN :
       IF accepted
       THEN /\ conn' = handle_incoming_connection(conn)
            /\ pc' = "ev_for"
            /\ UNCHANGED exc
       ELSE /\ exc' = "accept"
            /\ pc' = "finally"
            /\ UNCHANGED conn
  /\ cur' = NoKey
  /\ UNCHANGED <<platform, running, stop_requested, closes, listening, idle,
                 socall, hobs>>
  /\ UNCHANGED <<current_time, mgr, stepped, ready, polled, started>>
  /\ UNCHANGED others

\* self.handle_remote_peer_selector_event(key, mask)
remote_peer_selector_event ==
  /\ pc = "in_peer_event"
  /\ \E recv \in RecvResults, rd \in Outcomes, cs \in Outcomes :
       LET p == cur[1]
           r == handle_remote_peer_selector_event(conn, p, cur[2], recv, rd, cs)
       IN  /\ conn' = r.conn
           /\ hobs' = [peer |-> p, mask |-> cur[2], was_reg |-> conn[p].reg,
                       caught |-> r.caught, dcalls |-> r.dcalls,
                       others_changed |-> \E q \in Conns \ {p} : r.conn[q] # conn[q],
                       can_send_closed |-> r.can_send_closed]
           /\ IF r.escaped
              THEN /\ exc' = "handle_remote_peer_selector_event"
                   /\ pc' = "finally"
              ELSE /\ pc' = "ev_for"
                   /\ UNCHANGED exc
  /\ cur' = NoKey
  /\ UNCHANGED <<platform, running, stop_requested, closes, listening, idle, socall>>
  /\ UNCHANGED <<current_time, mgr, stepped, ready, polled, started>>
  /\ UNCHANGED others

\* a run() that closes the selector in its except clause and again in finally
run_finally_twice ==
  /\ pc = "finally"
  /\ closes' = IF exc # "none" THEN closes + 2 ELSE closes + 1
  /\ listening' = FALSE
  /\ idle' = 0
  /\ conn' = [p \in Conns |-> [conn[p] EXCEPT !.reg = FALSE]]
  /\ pc' = "done"
  /\ current_time' = 0
  /\ mgr' = 1
  /\ stepped' = <<>>
  /\ ready' = {}
  /\ cur' = NoKey
  /\ polled' = NoPoll
  /\ started' = {}
  /\ socall' = NoCall
  /\ hobs' = NoEvent
  /\ UNCHANGED <<platform, running, stop_requested, exc>>
  /\ UNCHANGED others

\* run()'s except and finally clauses: log, then self.selector.close(),
\* which empties the selector's map; run() returns and its frames' locals
\* are gone.
run_finally ==
  /\ pc = "finally"
  /\ closes' = closes + 1
  /\ listening' = FALSE
  /\ idle' = 0
  /\ conn' = [p \in Conns |-> [conn[p] EXCEPT !.reg = FALSE]]
  /\ pc' = "done"
  /\ current_time' = 0
  /\ mgr' = 1
  /\ stepped' = <<>>
  /\ ready' = {}
  /\ cur' = NoKey
  /\ polled' = NoPoll
  /\ started' = {}
  /\ socall' = NoCall
  /\ hobs' = NoEvent
  /\ UNCHANGED <<platform, running, stop_requested, exc>>
  /\ UNCHANGED others

Next ==
  \/ start_listening
  \/ stop
  \/ run_start
  \/ run_while
  \/ step_managers
  \/ nm_start_outgoing_connection
  \/ step_return
  \/ step_raise
  \/ select_return
  \/ select_raise
  \/ handle_selector_events
  \/ incoming_connection
  \/ remote_peer_selector_event
  \/ run_finally

Spec == Init /\ [][Next]_vars

\* the same loop, started after construction or close to the platform cap
SpecCap == InitCap /\ [][Next]_vars

\* What the loop thread does by itself once run() is called: every call it
\* makes returns or raises (select after at most its timeout).
LoopStep ==
  \/ run_start
  \/ run_while
  \/ step_managers
  \/ step_return
  \/ select_return
  \/ handle_selector_events
  \/ incoming_connection
  \/ remote_peer_selector_event
  \/ run_finally

SpecLive == Init /\ [][Next]_vars /\ WF_vars(LoopStep)


\* ------------------------------------------------------------- claims
DisconnectedBy(h) ==
  /\ ~conn[h.peer].reg
  /\ conn[h.peer].st = "closed"
  /\ conn[h.peer].nmD = 1

\* C1: whatever recv, handle_receive_data or handle_can_send raises while
\* handle_remote_peer_selector_event handles a peer's event (OSError or any
\* other Exception), the handler returns to the for loop of
\* handle_selector_events (nothing reaches run()), the peer is unregistered,
\* its socket closed and the Network Manager notified once, and no other
\* connection is touched.
C1_ExceptionDisconnectsPeer ==
  (hobs.peer # 0 /\ hobs.caught # "none") =>
     /\ pc = "ev_for"
     /\ exc = "none"
     /\ DisconnectedBy(hobs)
     /\ ~hobs.others_changed

\* an exception was caught for one peer while another stays registered and
\* further events of the batch wait
C1_Witness ==
  /\ hobs.peer # 0
  /\ hobs.caught = "Exception"
  /\ \E q \in Conns \ {hobs.peer} : conn[q].reg
  /\ ready # {}

\* an OS-level failure has just occurred: accept raised, a peer's recv or
\* send raised OSError, or the socket calls of an outbound connection raised
OSFailure ==
  \/ exc = "accept"
  \/ (hobs.peer # 0 /\ hobs.caught = "OSError")
  \/ (socall.called /\ socall.raised)

\* C2 (as claimed): an OS-level failure, wherever it occurs in the loop
\* (recv or send on a peer, accept on the listening socket, the opening of
\* an outbound connection), never propagates to run(): run() keeps
\* iterating and the selector stays open.
C2_ConnectionErrorsNeverPropagate ==
  OSFailure =>
     /\ exc = "none"
     /\ pc \notin {"finally", "done"}
     /\ closes = 0

\* C3: an exception that reaches run() (from a manager's step, from select
\* or from accept) ends the loop: run() is in its finally clause or has
\* returned, nothing of the loop runs again, and once run() has returned the
\* selector has been closed.
C3_TopLevelExceptionEndsLoop ==
  /\ exc # "none" => pc \in {"finally", "done"}
  /\ (exc # "none" /\ pc = "finally") => ENABLED run_finally
  /\ (exc # "none" /\ pc = "done") => closes = 1

C3_Witness ==
  /\ exc = "manager.step"
  /\ pc = "done"
  /\ closes = 1

FullDisconnect == <<"unregister", "close", "handle_peer_disconnected">>

\* C4: a disconnect of a registered peer unregisters, closes and notifies,
\* in that order; a disconnect of a peer that is no longer registered (the
\* write part of an event whose read part disconnected it) raises nothing,
\* changes no registration and leaves the loop running.
C4_DisconnectSwallowsUnregisterFailure ==
  (hobs.peer # 0 /\ hobs.dcalls # <<>>) =>
     /\ \A i \in 1..Len(hobs.dcalls) :
          /\ hobs.dcalls[i].was_reg => hobs.dcalls[i].ops = FullDisconnect
          /\ ~hobs.dcalls[i].was_reg => hobs.dcalls[i].ops = <<"unregister raised">>
          /\ hobs.dcalls[i].was_reg <=> (i = 1 /\ hobs.was_reg)
     /\ DisconnectedBy(hobs)
     /\ ~hobs.others_changed
     /\ pc = "ev_for"
     /\ exc = "none"

\* the read part saw the remote close and disconnected, then the write part
\* raised and the peer was disconnected a second time
C4_Witness ==
  /\ hobs.peer # 0
  /\ Len(hobs.dcalls) = 2
  /\ hobs.mask = {EVENT_READ, EVENT_WRITE}
  /\ \E q \in Conns \ {hobs.peer} : conn[q].reg


AllManagersAt(t) == <<<<"network_manager", t>>, <<"chain_manager", t>>>>

\* C5 (as claimed): every iteration that starts steps every manager exactly
\* once, Network Manager then Chain Manager, with the iteration's
\* current_time, also when stop() is requested during the iteration: when
\* step_managers has returned, both steps have been made.
C5_EveryIterationStepsAll ==
  pc = "select" => stepped = AllManagersAt(current_time)

\* C5 (amended): in every iteration each manager is stepped at most once, in
\* the order Network Manager, Chain Manager, with the current_time sampled
\* at the start of the iteration; and when step_managers returns with the
\* running flag still set, every manager has been stepped exactly once.
C5_StepsInOrderUntilStopped ==
  /\ \E n \in 0..2 : stepped = SubSeq(AllManagersAt(current_time), 1, n)
  /\ (pc = "select" /\ running) => stepped = AllManagersAt(current_time)

C5_Witness ==
  /\ pc = "select"
  /\ running
  /\ current_time = MaxTime
  /\ stepped = AllManagersAt(MaxTime)

\* C6: in one iteration the poll comes after all of the iteration's manager
\* steps: no step is made between the poll and the next iteration, every
\* event waiting or being dispatched is of a key the poll saw, and every
\* connection registered by start_outgoing_connection in this iteration is
\* in the map that this iteration's select polled.
C6_StepsBeforePoll ==
  /\ pc \in {"ev_for", "in_accept", "in_peer_event"} => polled.done
  /\ polled.done =>
       /\ polled.nsteps = Len(stepped)
       /\ started \subseteq polled.keys
       /\ ready \subseteq polled.keys
       /\ pc \in {"in_accept", "in_peer_event"} => cur[1] \in polled.keys

\* an event is dispatched for a peer that this iteration's step connected
C6_Witness ==
  /\ pc = "in_peer_event"
  /\ cur[1] \in started

StepStarts == pc # "in_step" /\ pc' = "in_step"
DispatchStarts == pc = "ev_for" /\ pc' \in {"in_accept", "in_peer_event"}
IterationStarts == pc = "while" /\ pc' = "mgr_for"

\* C7: while run() is looping and the running flag is clear, no manager
\* step starts, no event is dispatched and no iteration begins; and
\* clearing the flag changes nothing else, so a step or handler under way
\* is left only by its own return or raise.
C7_StopIsPromptAndCooperative ==
  [][ /\ (~running /\ pc # "idle") => ~(StepStarts \/ DispatchStarts \/ IterationStarts)
      /\ (running /\ ~running') =>
            UNCHANGED <<pc, exc, closes, listening, idle, conn, current_time, mgr,
                        stepped, ready, cur, polled, started, socall, hobs>>
      /\ (pc = "in_step" /\ pc' # pc) =>
            (pc' = "mgr_for" \/ (pc' = "finally" /\ exc' # "none"))
      /\ (pc \in {"in_accept", "in_peer_event"} /\ pc' # pc) =>
            (pc' = "ev_for" \/ (pc' = "finally" /\ exc' # "none"))
    ]_vars

\* the flag was cleared while a peer's event was being handled and further
\* events of the batch wait
C7_Witness ==
  /\ ~running
  /\ pc = "in_peer_event"
  /\ ready # {}

\* C8: the selector is closed exactly once on every way out of run(), only
\* from run()'s finally clause (no step or handler is under way), and
\* after the close nothing polls, registers, unregisters or dispatches.
C8_SelectorClosedOnce ==
  /\ [](/\ closes <= 1
        /\ pc = "done" <=> closes = 1)
  /\ [][ /\ closes' # closes => (pc = "finally" /\ pc' = "done")
         /\ closes >= 1 => UNCHANGED <<pc, closes, listening, idle, conn, ready, cur,
                                       polled, started, stepped, socall, hobs>>
       ]_vars

\* run() has returned after a stop() and without an exception
C8_Witness ==
  /\ pc = "done"
  /\ closes = 1
  /\ stop_requested
  /\ exc = "none"

Halted == stop_requested \/ exc # "none"

\* C9: as long as no stop is requested and no exception reaches run(),
\* each manager is stepped infinitely often: at every moment (so after
\* every poll, also one that found nothing ready) a step of each manager
\* is still to come.
C9_ManagersNeverStarved ==
  \A m \in 1..2 : []<>((pc = "in_step" /\ mgr = m) \/ Halted)

\* the Chain Manager is stepped in an iteration that follows a poll (an
\* accepted connection is registered)
C9_Witness ==
  /\ pc = "in_step"
  /\ managers[mgr] = "chain_manager"
  /\ ~Halted
  /\ \E p \in Conns : conn[p].dir = "INCOMING"

\* the cap as the claim states it
ClaimedCap == IF platform = "linux" THEN 512 ELSE 64

\* C10: a start_outgoing_connection call made with the selector's map at or
\* above the platform cap (512 on linux, 64 elsewhere) creates no socket,
\* registers nothing, notifies nobody and leaves every connection as it
\* was; a call made below the cap that returns has created one socket,
\* registered exactly one new peer for EVENT_READ and notified the Network
\* Manager once, dropping nobody.
C10_CapRefusesOutgoing ==
  socall.called =>
    IF socall.size >= ClaimedCap
    THEN /\ socall.created = 0
         /\ socall.registered = {}
         /\ socall.notified = 0
         /\ socall.dropped = {}
         /\ ~socall.raised
    ELSE /\ socall.dropped = {}
         /\ ~socall.raised =>
              /\ socall.created = 1
              /\ Cardinality(socall.registered) = 1
              /\ socall.events = {EVENT_READ}
              /\ socall.notified = 1

\* a call is refused at the cap while a followed peer is registered
C10_Witness ==
  /\ socall.called
  /\ socall.size >= ClaimedCap
  /\ platform = "linux"
  /\ Registered(conn) # {}

\* C11: in every state the selector's map holds at most the platform cap of
\* descriptors (512 on linux, 64 elsewhere), whichever way the connections
\* were opened.
C11_SelectorSizeWithinCap ==
  closes = 0 => SelectorSize(conn) <= ClaimedCap

\* the peers the Network Manager was told are connected and not yet told
\* are disconnected
Followed(c) == {p \in Conns : c[p].nmC = 1 /\ c[p].nmD = 0}

\* between two handler calls of a running loop
BetweenCalls == closes = 0 /\ pc \in {"idle", "while", "mgr_for", "select", "ev_for"}

\* C20: for every peer connection, accepted or outbound,
\* handle_peer_connected is delivered exactly once and in the step that
\* registers it; handle_peer_disconnected is delivered at most once, only
\* to a peer notified as connected, in the step that unregisters it; and
\* after every completed event dispatch or manager step the peers registered
\* in the selector are exactly the peers notified as connected and not yet
\* notified as disconnected.
C20_BookkeepingMatchesSelector ==
  [][ /\ \A p \in Conns :
           /\ (conn'[p].reg /\ ~conn[p].reg) <=> (conn'[p].nmC = conn[p].nmC + 1)
           /\ conn'[p].nmC \in {conn[p].nmC, conn[p].nmC + 1}
           /\ conn'[p].nmC <= 1
           /\ conn'[p].nmD \in {conn[p].nmD, conn[p].nmD + 1}
           /\ conn'[p].nmD <= conn[p].nmC
           /\ (conn'[p].nmD = conn[p].nmD + 1) => (conn[p].reg /\ ~conn'[p].reg)
      /\ BetweenCalls' => Registered(conn') = Followed(conn') ]_vars

\* an accepted and an outbound connection were both registered and one of
\* them was disconnected again, and the dispatch has returned
C20_Witness ==
  /\ pc = "ev_for"
  /\ closes = 0
  /\ \E p, q \in Conns :
       /\ conn[p].dir = "INCOMING" /\ conn[q].dir = "OUTGOING"
       /\ conn[p].nmC = 1 /\ conn[p].nmD = 1 /\ ~conn[p].reg
       /\ conn[q].nmC = 1 /\ conn[q].nmD = 0 /\ conn[q].reg

\* ------------------------------------------------------------- peers.json
\* DiskInterface.overwrite_peers, step by step as the file system sees it.

\* the list comprehension of overwrite_peers, here keeping every OUTGOING peer
RECURSIVE db_without_hello(_)
db_without_hello(peers) ==
  IF peers = <<>>
  THEN <<>>
  ELSE LET remote_peer == Head(peers)
       IN  (IF remote_peer.direction = OUTGOING
            THEN << <<remote_peer.host, remote_peer.port, remote_peer.direction>> >>
            ELSE <<>>) \o db_without_hello(Tail(peers))

\* db = [(host, port, direction) for remote_peer in peers
\*       if remote_peer.direction == OUTGOING and remote_peer.hello_received]
RECURSIVE db(_)
db(peers) ==
  IF peers = <<>>
  THEN <<>>
  ELSE LET remote_peer == Head(peers)
       IN  (IF remote_peer.direction = OUTGOING /\ remote_peer.hello_received
            THEN << <<remote_peer.host, remote_peer.port, remote_peer.direction>> >>
            ELSE <<>>) \o db(Tail(peers))

\* overwrite_peers(peers) up to its first change of the file system:
\* open("peers.json", "w") creates or truncates the file; os.remove deletes
\* it, or raises FileNotFoundError when there is none, which ends the call.
overwrite_peers(peers) ==
  /\ ow.pc = "idle"
  /\ IF db(peers) # <<>>
     THEN /\ peers_json' = [exists |-> TRUE, entries |-> <<>>, complete |-> FALSE]
          /\ ow' = [pc |-> "writing", peers |-> peers, db |-> db(peers),
                    old |-> peers_json, raised |-> "none"]
     ELSE /\ peers_json' = Absent
          /\ ow' = [pc |-> "returned", peers |-> peers, db |-> <<>>,
                    old |-> peers_json,
                    raised |-> IF peers_json.exists THEN "none" ELSE "FileNotFoundError"]
  /\ UNCHANGED <<loop, candidate, chain, val>>

\* json.dump(db, f, indent=4): the next entry reaches the file
json_dump ==
  /\ ow.pc = "writing"
  /\ Len(peers_json.entries) < Len(ow.db)
  /\ peers_json' = [peers_json EXCEPT !.entries = Append(@, ow.db[Len(@) + 1])]
  /\ UNCHANGED <<ow, loop, candidate, chain, val>>

\* the end of the with block: the closing bracket is written and f is closed
file_close ==
  /\ ow.pc = "writing"
  /\ Len(peers_json.entries) = Len(ow.db)
  /\ peers_json' = [peers_json EXCEPT !.complete = TRUE]
  /\ ow' = [ow EXCEPT !.pc = "returned"]
  /\ UNCHANGED <<loop, candidate, chain, val>>

\* the process is killed, or the machine stops, inside the with block
crash ==
  /\ ow.pc = "writing"
  /\ ow' = [ow EXCEPT !.pc = "crashed"]
  /\ UNCHANGED <<peers_json, loop, candidate, chain, val>>

NextDisk ==
  \/ \E peers \in PeerLists : overwrite_peers(peers)
  \/ json_dump
  \/ file_close
  \/ crash

\* what earlier calls can have left behind: no file, or the complete list of
\* some earlier call
Files ==
  {Absent} \cup {[exists |-> TRUE, entries |-> db(peers), complete |-> TRUE] :
                   peers \in {l \in PeerLists : db(l) # <<>>}}

InitDisk ==
  /\ InitLoop
  /\ InitConstructed
  /\ peers_json \in Files
  /\ ow = NoOverwrite
  /\ InitManagers

SpecDisk == InitDisk /\ [][NextDisk]_vars

\* the peers that are to be persisted, and the file that holds them
Qualifying(peers) ==
  SelectSeq(peers, LAMBDA r : r.direction = "OUTGOING" /\ r.hello_received)

FileOf(q) ==
  [exists |-> TRUE,
   entries |-> [i \in 1..Len(q) |-> <<q[i].host, q[i].port, q[i].direction>>],
   complete |-> TRUE]

\* C12: after overwrite_peers(peers) peers.json holds exactly the
\* (host, port, direction) entries of the peers that are OUTGOING and have
\* hello_received, in list order and nothing else (whatever the file held
\* before); when no peer qualifies there is no file afterwards.
C12_FileHoldsQualifyingPeers ==
  ow.pc = "returned" =>
    IF Qualifying(ow.peers) = <<>>
    THEN peers_json = Absent
    ELSE peers_json = FileOf(Qualifying(ow.peers))

\* a file with two entries was replaced by the one qualifying peer of a
\* list that also holds a peer without hello and an incoming one
C12_Witness ==
  /\ ow.pc = "returned"
  /\ Len(ow.old.entries) = 2
  /\ Len(ow.peers) = 2
  /\ Len(peers_json.entries) = 1
  /\ \E i \in 1..2 : ow.peers[i].direction = "OUTGOING" /\ ~ow.peers[i].hello_received

\* the file was removed because no peer of a non-empty list qualified
C12_WitnessRemoved ==
  /\ ow.pc = "returned"
  /\ ow.old.exists
  /\ ow.peers # <<>>
  /\ peers_json = Absent

\* C13: at every point, a crash inside overwrite_peers included, peers.json
\* is absent or holds the complete list of the previous call or the complete
\* list of the current one; it is never empty or cut short.
C13_RewriteIsAtomic ==
  /\ peers_json.exists => (peers_json.complete /\ peers_json.entries # <<>>)
  /\ ow.pc # "idle" =>
       \/ peers_json = Absent
       \/ peers_json = ow.old
       \/ peers_json = FileOf(Qualifying(ow.peers))

\* ------------------------------------------------------------- retry backoff
\* The Network Manager's handling of one outbound candidate.
\* candidate.attempts counts the attempts used up, candidate.retry_at is the
\* scheduled retry time, candidate.now the time of the latest step.

\* the delay scheduled when the n-th attempt has failed
retry_delay(n) == TIME_TO_SECOND_CONNECTION_ATTEMPT * 2^(n - 1)

\* time passes, to just before the scheduled retry time or to it
clock ==
  /\ candidate.state = "disconnected"
  /\ \E t \in {candidate.retry_at - 1, candidate.retry_at} :
       /\ t > candidate.now
       /\ candidate' = [candidate EXCEPT !.now = t]
  /\ UNCHANGED <<loop, peers_json, ow, chain, val>>

\* NetworkManager.step(current_time) with the candidate due: it is handed to
\* local_peer.start_outgoing_connection
nm_step_connect ==
  /\ candidate.state = "disconnected"
  /\ candidate.now >= candidate.retry_at
  /\ candidate' = [candidate EXCEPT !.state = "connected",
                                     !.handings = @ + 1,
                                     !.handed_at = candidate.now,
                                     !.due_then = candidate.retry_at]
  /\ UNCHANGED <<loop, peers_json, ow, chain, val>>

\* NetworkManager.step(current_time) before the retry time: nothing is done
nm_step_wait ==
  /\ candidate.state = "disconnected"
  /\ candidate.now < candidate.retry_at
  /\ UNCHANGED vars

\* handle_peer_disconnected for the candidate, after a failed attempt or a
\* later disconnect: one more attempt is used up; the next one is scheduled
\* with the doubled delay, or the candidate is dropped
nm_handle_peer_disconnected ==
  /\ candidate.state = "connected"
  /\ LET n == candidate.attempts + 1
     IN  candidate' =
           IF n >= MAX_CONNECTION_ATTEMPTS
           THEN [candidate EXCEPT !.state = "dropped", !.attempts = n,
                                  !.failed_at = candidate.now]
           ELSE [candidate EXCEPT !.state = "disconnected", !.attempts = n,
                                  !.failed_at = candidate.now,
                                  !.retry_at = candidate.now + retry_delay(n)]
  /\ UNCHANGED <<loop, peers_json, ow, chain, val>>

NextBackoff ==
  \/ clock
  \/ nm_step_connect
  \/ nm_step_wait
  \/ nm_handle_peer_disconnected

SpecBackoff == Init /\ [][NextBackoff]_vars

Times ==
  {0, 1,
   SWITCH_TO_ACTIVE_MODE_TIMEOUT - 1, SWITCH_TO_ACTIVE_MODE_TIMEOUT,
   SWITCH_TO_ACTIVE_MODE_TIMEOUT + 1,
   2 * SWITCH_TO_ACTIVE_MODE_TIMEOUT, 2 * SWITCH_TO_ACTIVE_MODE_TIMEOUT + 1,
   2 * SWITCH_TO_ACTIVE_MODE_TIMEOUT + 2}

\* the mode after a step made with the head age seconds old
next_mode(mode, age) ==
  IF mode = "IBD"
  THEN IF age <= SWITCH_TO_ACTIVE_MODE_TIMEOUT THEN "Active" ELSE "IBD"
  ELSE IF age > SWITCH_TO_ACTIVE_MODE_TIMEOUT THEN "IBD" ELSE "Active"

\* ChainManager.step(current_time)
cm_step ==
  \E t \in Times :
    /\ t >= chain.now
    /\ LET m == next_mode(chain.mode, t - chain.head)
       IN  chain' = [chain EXCEPT !.now = t, !.mode = m, !.at_step = TRUE,
                                  !.switches = IF m = chain.mode \/ @ = 2 THEN @ ELSE @ + 1]
    /\ UNCHANGED <<loop, peers_json, ow, candidate, val>>

\* a block with a later timestamp becomes the head of the chain
cm_new_head ==
  \E t \in Times :
    /\ t > chain.head
    /\ t <= chain.now
    /\ chain' = [chain EXCEPT !.head = t, !.at_step = FALSE]
    /\ UNCHANGED <<loop, peers_json, ow, candidate, val>>

NextMode ==
  \/ cm_step
  \/ cm_new_head

SpecMode == Init /\ [][NextMode]_vars

SASHIMI_PER_COIN == 100000000

\* blocks between two halvings of the subsidy
SUBSIDY_HALVING_INTERVAL_off_by_one == 1050000 + 1
SUBSIDY_HALVING_INTERVAL == 1050000

\* the subsidy of the first blocks
INITIAL_SUBSIDY == 10 * SASHIMI_PER_COIN

\* test_get_block_subsidy: <<height, expected subsidy>>
test_get_block_subsidy ==
  { <<0, 10 * SASHIMI_PER_COIN>>,
    <<1050000 - 1, 10 * SASHIMI_PER_COIN>>,
    <<1050000, 5 * SASHIMI_PER_COIN>>,
    <<(1050000 * 30) - 1, 1>>,
    <<1050000 * 30, 0>> }

\* v halved n times, rounding down each time
RECURSIVE halve(_, _)
halve(v, n) == IF n = 0 \/ v = 0 THEN v ELSE halve(v \div 2, n - 1)

\* get_block_subsidy(height)
get_block_subsidy(height) ==
  halve(INITIAL_SUBSIDY, height \div SUBSIDY_HALVING_INTERVAL)

\* the heights around every halving boundary, and those of the tests
Heights ==
  {h \in {k * SUBSIDY_HALVING_INTERVAL + d : k \in 0..(MaxHalvings + 1), d \in {-1, 0, 1}} : h >= 0}
  \cup {c[1] : c \in test_get_block_subsidy}

call_get_block_subsidy ==
  /\ val.fn = "none"
  /\ \E height \in Heights :
       val' = [fn |-> "get_block_subsidy", arg |-> [height |-> height],
               done |-> FALSE, result |-> "none"]
  /\ UNCHANGED <<loop, peers_json, ow, candidate, chain>>

return_get_block_subsidy ==
  /\ val.fn = "get_block_subsidy"
  /\ ~val.done
  /\ val' = [val EXCEPT !.done = TRUE, !.result = get_block_subsidy(val.arg.height)]
  /\ UNCHANGED <<loop, peers_json, ow, candidate, chain>>

NextSubsidy ==
  \/ call_get_block_subsidy
  \/ return_get_block_subsidy

SpecSubsidy == Init /\ [][NextSubsidy]_vars

\* C16: get_block_subsidy(height) is 10 * SASHIMI_PER_COIN halved, rounding
\* down, once per 1,050,000 blocks of height: at a multiple of 1,050,000 it
\* is half (rounded down) of what it is one block earlier and elsewhere it
\* is what it is one block earlier, it never grows with the height, it is
\* 1 at height 31,499,999 and 0 from height 31,500,000 on, and it gives the
\* values test_get_block_subsidy expects.
C16_SubsidyHalves ==
  /\ \A c \in test_get_block_subsidy : get_block_subsidy(c[1]) = c[2]
  /\ (val.fn = "get_block_subsidy" /\ val.done) =>
       LET h == val.arg.height
           s == val.result
       IN  /\ h < 31500000 => s = (10 * SASHIMI_PER_COIN) \div 2^(h \div 1050000)
           /\ h >= 31500000 => s = 0
           /\ h = 31499999 => s = 1
           /\ \A h2 \in Heights : h2 >= h => get_block_subsidy(h2) <= s
           /\ (h > 0 /\ h % 1050000 = 0) => s = get_block_subsidy(h - 1) \div 2
           /\ (h > 0 /\ h % 1050000 # 0) => s = get_block_subsidy(h - 1)

\* the last unit: the subsidy of the block before the thirtieth halving
C16_Witness ==
  /\ val.fn = "get_block_subsidy"
  /\ val.done
  /\ val.arg.height = 31499999
  /\ val.result = 1

\* ---- transactions
\* A transaction as the validator sees it: its inputs (output reference and
\* the class of the object in the signature slot), the values of its
\* outputs, and whether its serialization is longer than MAX_BLOCK_SIZE.
\* Output values are counted in units of which 21,000,000 are the supply.

\* OutputReference(b'\x00' * 32, 0), the reference of a coinbase input
THIN_AIR == "OutputReference(00..00, 0)"
OutputReferences == {THIN_AIR, "OutputReference(aa..aa, 1)", "OutputReference(cc..cc, 4)"}
SignatureClasses == {"SECP256k1Signature", "SignableEquivalent", "CoinbaseData"}

\* the first total output value that is out of range
MAX_SUPPLY == 21000000
OutputValues == {30, MAX_SUPPLY}

TxInputs == [output_reference : OutputReferences,
             signature : {"SECP256k1Signature", "SignableEquivalent"}]

Transactions ==
  [inputs  : UNION {[1..n -> TxInputs] : n \in 0..MaxInputs},
   outputs : UNION {[1..n -> OutputValues] : n \in 0..MaxOutputs},
   size    : {"within", "over"}]

RECURSIVE Sum(_)
Sum(values) == IF values = <<>> THEN 0 ELSE Head(values) + Sum(Tail(values))

ValidateTransactionError(message) == [raised |-> "ValidateTransactionError", message |-> message]
Valid == [raised |-> "none", message |-> ""]

\* the rules of validate_non_coinbase_transaction_by_itself
NoInputs(tx) == Len(tx.inputs) = 0
NoOutputs(tx) == Len(tx.outputs) = 0
TooLarge(tx) == tx.size = "over"
DuplicateReference(tx) ==
  \E i, j \in 1..Len(tx.inputs) : i # j /\ tx.inputs[i].output_reference = tx.inputs[j].output_reference
NullReference(tx) == \E i \in 1..Len(tx.inputs) : tx.inputs[i].output_reference = THIN_AIR
NonSignature(tx) == \E i \in 1..Len(tx.inputs) : tx.inputs[i].signature = "SignableEquivalent"
OutOfRange(tx) == ~(Sum(tx.outputs) < MAX_SUPPLY)

\* the same function testing for duplicate references before the size
validate_non_coinbase_transaction_by_itself_duplicates_first(tx) ==
  IF NoInputs(tx) THEN ValidateTransactionError("No inputs")
  ELSE IF NoOutputs(tx) THEN ValidateTransactionError("No outputs")
  ELSE IF DuplicateReference(tx)
  THEN ValidateTransactionError("output_reference referenced more than once")
  ELSE IF TooLarge(tx) THEN ValidateTransactionError("transaction > MAX_BLOCK_SIZE")
  ELSE IF NullReference(tx)
  THEN ValidateTransactionError("null-reference in non-coinbase transaction")
  ELSE IF NonSignature(tx) THEN ValidateTransactionError("Non-signature Signature class used")
  ELSE IF OutOfRange(tx) THEN ValidateTransactionError("Total output value out of range")
  ELSE Valid

\* validate_non_coinbase_transaction_by_itself(transaction): the first rule
\* that is violated raises
validate_non_coinbase_transaction_by_itself(tx) ==
  IF NoInputs(tx) THEN ValidateTransactionError("No inputs")
  ELSE IF NoOutputs(tx) THEN ValidateTransactionError("No outputs")
  ELSE IF TooLarge(tx) THEN ValidateTransactionError("transaction > MAX_BLOCK_SIZE")
  ELSE IF DuplicateReference(tx)
  THEN ValidateTransactionError("output_reference referenced more than once")
  ELSE IF NullReference(tx)
  THEN ValidateTransactionError("null-reference in non-coinbase transaction")
  ELSE IF NonSignature(tx) THEN ValidateTransactionError("Non-signature Signature class used")
  ELSE IF OutOfRange(tx) THEN ValidateTransactionError("Total output value out of range")
  ELSE Valid

\* test_validate_non_coinbase_transaction_by_itself_*: the transaction of
\* each test and the message its error must match (the 30,000 equal inputs
\* of the max_size test are two equal inputs of a transaction that is too
\* large)
example_input == [output_reference |-> "OutputReference(aa..aa, 1)", signature |-> "SECP256k1Signature"]

test_validate_non_coinbase_transaction_by_itself ==
  { [tx |-> [inputs |-> <<>>, outputs |-> <<30>>, size |-> "within"],
     match |-> "No inputs"],
    [tx |-> [inputs |-> <<example_input>>, outputs |-> <<>>, size |-> "within"],
     match |-> "No outputs"],
    [tx |-> [inputs |-> <<example_input, example_input>>, outputs |-> <<30>>, size |-> "over"],
     match |-> "transaction > MAX_BLOCK_SIZE"],
    [tx |-> [inputs |-> <<example_input>>, outputs |-> <<MAX_SUPPLY>>, size |-> "within"],
     match |-> "Total output value out of range"],
    [tx |-> [inputs |-> <<example_input, example_input>>, outputs |-> <<30>>, size |-> "within"],
     match |-> "output_reference referenced more than once"],
    [tx |-> [inputs |-> <<[example_input EXCEPT !.output_reference = THIN_AIR]>>,
             outputs |-> <<30>>, size |-> "within"],
     match |-> "null-reference in non-coinbase transaction"],
    [tx |-> [inputs |-> <<[example_input EXCEPT !.signature = "SignableEquivalent"]>>,
             outputs |-> <<30>>, size |-> "within"],
     match |-> "Non-signature Signature class used"] }

call_validate_non_coinbase ==
  /\ val.fn = "none"
  /\ \E tx \in Transactions :
       val' = [fn |-> "validate_non_coinbase_transaction_by_itself", arg |-> tx,
               done |-> FALSE, result |-> Valid]
  /\ UNCHANGED <<loop, peers_json, ow, candidate, chain>>

return_validate_non_coinbase ==
  /\ val.fn = "validate_non_coinbase_transaction_by_itself"
  /\ ~val.done
  /\ val' = [val EXCEPT !.done = TRUE,
                         !.result = validate_non_coinbase_transaction_by_itself(val.arg)]
  /\ UNCHANGED <<loop, peers_json, ow, candidate, chain>>

NextNonCoinbase ==
  \/ call_validate_non_coinbase
  \/ return_validate_non_coinbase

SpecNonCoinbase == Init /\ [][NextNonCoinbase]_vars

\* the messages of the rules a transaction violates
ViolatedRules(tx) ==
  {m \in {"No inputs", "No outputs", "transaction > MAX_BLOCK_SIZE",
          "output_reference referenced more than once",
          "null-reference in non-coinbase transaction",
          "Total output value out of range",
          "Non-signature Signature class used"} :
     \/ m = "No inputs" /\ Len(tx.inputs) = 0
     \/ m = "No outputs" /\ Len(tx.outputs) = 0
     \/ m = "transaction > MAX_BLOCK_SIZE" /\ tx.size = "over"
     \/ m = "output_reference referenced more than once"
          /\ Cardinality({tx.inputs[i].output_reference : i \in 1..Len(tx.inputs)}) < Len(tx.inputs)
     \/ m = "null-reference in non-coinbase transaction"
          /\ THIN_AIR \in {tx.inputs[i].output_reference : i \in 1..Len(tx.inputs)}
     \/ m = "Total output value out of range"
          /\ Sum(tx.outputs) >= 21000000
     \/ m = "Non-signature Signature class used"
          /\ "SignableEquivalent" \in {tx.inputs[i].signature : i \in 1..Len(tx.inputs)}}

CoinbaseInputs ==
  {i \in [output_reference : OutputReferences,
          signature : {"CoinbaseData", "SECP256k1Signature"},
          data_size : 0..(MAX_COINBASE_RANDOM_DATA_SIZE + 1)] :
     i.signature # "CoinbaseData" => i.data_size = 0}

CoinbaseTransactions == UNION {[1..n -> CoinbaseInputs] : n \in 0..MaxInputs}

\* the same function without the test of the data size
validate_coinbase_transaction_by_itself_any_size(inputs) ==
  IF Len(inputs) # 1
  THEN ValidateTransactionError("Coinbase transaction should have 1 input")
  ELSE IF inputs[1].output_reference # THIN_AIR
  THEN ValidateTransactionError("Coinbase transaction must create money out of thin air")
  ELSE IF inputs[1].signature # "CoinbaseData" \/ inputs[1].data_size = 0
  THEN ValidateTransactionError("Coinbase signature must be CoinbaseData")
  ELSE Valid

\* validate_coinbase_transaction_by_itself(transaction), as a function of
\* the transaction's inputs
validate_coinbase_transaction_by_itself(inputs) ==
  IF Len(inputs) # 1
  THEN ValidateTransactionError("Coinbase transaction should have 1 input")
  ELSE IF inputs[1].output_reference # THIN_AIR
  THEN ValidateTransactionError("Coinbase transaction must create money out of thin air")
  ELSE IF inputs[1].signature # "CoinbaseData" \/ inputs[1].data_size = 0
  THEN ValidateTransactionError("Coinbase signature must be CoinbaseData")
  ELSE IF inputs[1].data_size > MAX_COINBASE_RANDOM_DATA_SIZE
  THEN ValidateTransactionError("CoinbaseData > MAX_COINBASE_RANDOM_DATA_SIZE")
  ELSE Valid

\* _get_example_coinbase_transaction()
example_coinbase_input ==
  [output_reference |-> THIN_AIR, signature |-> "CoinbaseData", data_size |-> 1]

\* test_validate_coinbase_transaction_by_itself_*: the inputs of each test
\* and what the call must do
test_validate_coinbase_transaction_by_itself ==
  { [inputs |-> <<example_coinbase_input>>, result |-> Valid],
    [inputs |-> <<example_coinbase_input, example_coinbase_input>>,
     result |-> ValidateTransactionError("Coinbase transaction should have 1 input")],
    [inputs |-> <<[example_coinbase_input EXCEPT !.output_reference = "OutputReference(cc..cc, 4)"]>>,
     result |-> ValidateTransactionError("Coinbase transaction must create money out of thin air")],
    [inputs |-> <<[example_coinbase_input EXCEPT !.signature = "SECP256k1Signature", !.data_size = 0]>>,
     result |-> ValidateTransactionError("Coinbase signature must be CoinbaseData")],
    [inputs |-> <<[example_coinbase_input EXCEPT !.data_size = MAX_COINBASE_RANDOM_DATA_SIZE + 1]>>,
     result |-> ValidateTransactionError("CoinbaseData > MAX_COINBASE_RANDOM_DATA_SIZE")] }

call_validate_coinbase ==
  /\ val.fn = "none"
  /\ \E inputs \in CoinbaseTransactions :
       val' = [fn |-> "validate_coinbase_transaction_by_itself", arg |-> inputs,
               done |-> FALSE, result |-> Valid]
  /\ UNCHANGED <<loop, peers_json, ow, candidate, chain>>

return_validate_coinbase ==
  /\ val.fn = "validate_coinbase_transaction_by_itself"
  /\ ~val.done
  /\ val' = [val EXCEPT !.done = TRUE,
                         !.result = validate_coinbase_transaction_by_itself(val.arg)]
  /\ UNCHANGED <<loop, peers_json, ow, candidate, chain>>

NextCoinbase ==
  \/ call_validate_coinbase
  \/ return_validate_coinbase

SpecCoinbase == Init /\ [][NextCoinbase]_vars

\* C18: validate_coinbase_transaction_by_itself accepts a coinbase that has
\* exactly one input, with the thin-air reference and with CoinbaseData
\* that is not empty and not longer than MAX_COINBASE_RANDOM_DATA_SIZE; it
\* raises a ValidateTransactionError for a coinbase with more than one
\* input, with an input that references a real output, with an input whose
\* signature slot holds no CoinbaseData, or with CoinbaseData longer than
\* MAX_COINBASE_RANDOM_DATA_SIZE; and each test coinbase gets what its test
\* expects.
C18_CoinbaseRules ==
  /\ \A t \in test_validate_coinbase_transaction_by_itself :
       validate_coinbase_transaction_by_itself(t.inputs) = t.result
  /\ (val.fn = "validate_coinbase_transaction_by_itself" /\ val.done) =>
       LET inputs == val.arg
           n == Len(inputs)
       IN  /\ ( /\ n = 1
                /\ inputs[1].output_reference = THIN_AIR
                /\ inputs[1].signature = "CoinbaseData"
                /\ inputs[1].data_size \in 1..MAX_COINBASE_RANDOM_DATA_SIZE )
                => val.result.raised = "none"
           /\ ( \/ n > 1
                \/ \E i \in 1..n : inputs[i].output_reference # THIN_AIR
                \/ \E i \in 1..n : inputs[i].signature # "CoinbaseData"
                \/ \E i \in 1..n : inputs[i].data_size > MAX_COINBASE_RANDOM_DATA_SIZE )
                => val.result.raised = "ValidateTransactionError"

\* a coinbase whose only fault is data one byte too long was rejected, with
\* the error of that rule
C18_Witness ==
  /\ val.fn = "validate_coinbase_transaction_by_itself"
  /\ val.done
  /\ val.arg = <<[example_coinbase_input EXCEPT !.data_size = MAX_COINBASE_RANDOM_DATA_SIZE + 1]>>
  /\ val.result = ValidateTransactionError("CoinbaseData > MAX_COINBASE_RANDOM_DATA_SIZE")

\* ---- blocks
\* A block as validate_block_by_itself sees it: its declared height, the
\* height of its parent (-1 when it has none), whether the proof-of-work
\* evidence of its header holds, the header's timestamp, and its
\* transactions (a coinbase, given by its inputs, and the others).

\* the timestamp in the header of get_example_genesis_block()
EXAMPLE_GENESIS_TIMESTAMP == 1615209483

\* the current_timestamp the tests validate at
TEST_TIMESTAMP == 1615209942

\* a transaction that breaks no rule
example_transaction == [inputs |-> <<example_input>>, outputs |-> <<30>>, size |-> "within"]

Blocks ==
  [height : 0..MaxHeight,
   parent_height : -1..(MaxHeight - 1),
   pow_ok : BOOLEAN,
   timestamp : {EXAMPLE_GENESIS_TIMESTAMP},
   coinbase : {t.inputs : t \in test_validate_coinbase_transaction_by_itself},
   others : {<<>>} \cup {<<tx>> : tx \in {example_transaction} \cup
                {t.tx : t \in test_validate_non_coinbase_transaction_by_itself}}]

CurrentTimestamps == {EXAMPLE_GENESIS_TIMESTAMP - 100, EXAMPLE_GENESIS_TIMESTAMP, TEST_TIMESTAMP}

\* get_example_genesis_block()
example_genesis_block ==
  [height |-> 0, parent_height |-> -1, pow_ok |-> TRUE,
   timestamp |-> EXAMPLE_GENESIS_TIMESTAMP,
   coinbase |-> <<example_coinbase_input>>, others |-> <<>>]

ValidatePOWError == [raised |-> "ValidatePOWError", message |-> "POW"]
ValidateBlockHeaderError == [raised |-> "ValidateBlockHeaderError", message |-> "Block timestamp in the future"]
ValidateBlockError(message) == [raised |-> "ValidateBlockError", message |-> message]

\* validate_block_header_by_itself(header, current_timestamp): a header 100 s
\* ahead of the validating clock is from the future
validate_block_header_by_itself(block, current_timestamp) ==
  IF ~block.pow_ok THEN ValidatePOWError
  ELSE IF block.timestamp - 100 >= current_timestamp THEN ValidateBlockHeaderError
  ELSE Valid

\* the transactions of a block, each by the rule of its position
validate_transactions(block) ==
  IF validate_coinbase_transaction_by_itself(block.coinbase) # Valid
  THEN validate_coinbase_transaction_by_itself(block.coinbase)
  ELSE IF block.others # <<>>
  THEN validate_non_coinbase_transaction_by_itself(block.others[1])
  ELSE Valid

\* the same function looking at the height last
validate_block_by_itself_height_last(block, current_timestamp) ==
  IF validate_block_header_by_itself(block, current_timestamp) # Valid
  THEN validate_block_header_by_itself(block, current_timestamp)
  ELSE IF validate_transactions(block) # Valid
  THEN validate_transactions(block)
  ELSE IF block.height # block.parent_height + 1
  THEN ValidateBlockError("Block height mismatch")
  ELSE Valid

\* validate_block_by_itself(block, current_timestamp)
validate_block_by_itself(block, current_timestamp) ==
  IF block.height # block.parent_height + 1
  THEN ValidateBlockError("Block height mismatch")
  ELSE IF validate_block_header_by_itself(block, current_timestamp) # Valid
  THEN validate_block_header_by_itself(block, current_timestamp)
  ELSE validate_transactions(block)

call_validate_block ==
  /\ val.fn = "none"
  /\ \E block \in Blocks, current_timestamp \in CurrentTimestamps :
       val' = [fn |-> "validate_block_by_itself",
               arg |-> [block |-> block, current_timestamp |-> current_timestamp],
               done |-> FALSE, result |-> Valid]
  /\ UNCHANGED <<loop, peers_json, ow, candidate, chain>>

return_validate_block ==
  /\ val.fn = "validate_block_by_itself"
  /\ ~val.done
  /\ val' = [val EXCEPT !.done = TRUE,
                         !.result = validate_block_by_itself(val.arg.block,
                                                             val.arg.current_timestamp)]
  /\ UNCHANGED <<loop, peers_json, ow, candidate, chain>>

NextBlock ==
  \/ call_validate_block
  \/ return_validate_block

SpecBlock == Init /\ [][NextBlock]_vars

\* C19: validate_block_by_itself raises a ValidateBlockError about the
\* height for every block whose declared height is not its parent's height
\* plus one (0 for a block without parent), whatever the state of its
\* header and transactions, and it accepts the example genesis block at
\* every validating timestamp from the block's own timestamp on; the
\* genesis block with its height set to 1 is rejected as its test expects.
C19_BlockHeightRule ==
  /\ validate_block_by_itself(example_genesis_block, 1615209942) = Valid
  /\ validate_block_by_itself([example_genesis_block EXCEPT !.height = 1], 1615209942).raised
       = "ValidateBlockError"
  /\ (val.fn = "validate_block_by_itself" /\ val.done) =>
       LET block == val.arg.block
       IN  /\ block.height # (IF block.parent_height = -1 THEN 0 ELSE block.parent_height + 1)
                => val.result = ValidateBlockError("Block height mismatch")
           /\ (block = example_genesis_block /\ val.arg.current_timestamp >= block.timestamp)
                => val.result = Valid

\* a block with a wrong height, a header without proof of work and a
\* coinbase with two inputs was rejected for its height
C19_Witness ==
  /\ val.fn = "validate_block_by_itself"
  /\ val.done
  /\ val.arg.block.height = 2
  /\ val.arg.block.parent_height = 0
  /\ ~val.arg.block.pow_ok
  /\ Len(val.arg.block.coinbase) = 2
  /\ val.result.raised = "ValidateBlockError"

\* C21: whenever stop() has been called, before run() set its running flag
\* or at any point of the loop, run() eventually returns (every manager
\* step, poll and handler returning or raising).
C21_StopNeverLost ==
  stop_requested ~> (pc = "done")

\* C22: handle_can_send is never called for a peer that has been
\* disconnected: in particular, when the read part of an event with both
\* read and write readiness has disconnected the peer after an empty recv,
\* the write part of the same event does not call it on the closed socket.
C22_NoHandlerAfterDisconnect ==
  ~hobs.can_send_closed

\* C23: overwrite_peers raises nothing, whatever the peer list and whatever
\* peers.json held before: with no qualifying peer and no file it leaves the
\* file absent and returns normally.
C23_OverwriteNeverRaises ==
  ow.raised = "none"

====
